---- MODULE Spec2Model ----
(***************************************************************************)
(* Model of the PoE2 wiki MCP server (json-cam/Poe2-Wiki-MCP).             *)
(*                                                                         *)
(* Text is a sequence of characters.  A character is a one-element string; *)
(* a longer string such as "Item" stands for that run of letters, which no *)
(* operation of the program splits.  Page content is one flat sequence in  *)
(* which "\n" separates the lines.  JavaScript indices are kept 0-based.   *)
(*                                                                         *)
(* The repository holds three revisions of the server:                     *)
(*   "index"   src/index.ts (tools get_gem_info, search_gems; fetchers     *)
(*             index.ts:116-238)                                           *)
(*   "part000" src/unnamed/part_000 with the fetchers of                   *)
(*             src/unnamed/part_002:3-100 (tag based supports)             *)
(*   "part001" src/unnamed/part_001 with the fetchers of                   *)
(*             src/unnamed/part_002:102-270 (recommended supports)         *)
(* The variable variant says which revision runs; it never changes.        *)
(***************************************************************************)
EXTENDS Integers, Sequences, FiniteSets, TLC

VARIABLES variant, cache, now, ticks, pc, call, request, lookupDone,
          response, lastCall, failures,
          pContent, pLines, pIdx, result, currentKey, pState, pReturn,
          xContent, xGems, xState,
          rawStatText, cleanStats, cleanedAgain, cState

vars == <<variant, cache, now, ticks, pc, call, request, lookupDone,
          response, lastCall, failures,
          pContent, pLines, pIdx, result, currentKey, pState, pReturn,
          xContent, xGems, xState,
          rawStatText, cleanStats, cleanedAgain, cState>>

serverVars == <<cache, now, ticks, pc, call, request, lookupDone,
                response, lastCall, failures>>

parseVars == <<pContent, pLines, pIdx, result, currentKey, pState, pReturn>>

extractVars == <<xContent, xGems, xState>>

cleanVars == <<rawStatText, cleanStats, cleanedAgain, cState>>

----------------------------------------------------------------------------
(* Bounds *)

MaxTicks == 2
MaxBodyLines == 3
MaxFailures == 2

(* Program constants *)

CACHE_TTL_MS == 3600000
MAX_PREVIEW_LENGTH == 1000

----------------------------------------------------------------------------
(* JavaScript string primitives over character sequences *)

NL == "\n"

WhiteSpace == {" ", "\t", "\n", "\r"}

Min(a, b) == IF a < b THEN a ELSE b

Max(a, b) == IF a > b THEN a ELSE b

\* s.substring(a, b): 0-based, end exclusive, arguments clamped to [0, length]
Substring(s, a, b) ==
    LET lo == Max(0, Min(a, Len(s)))
        hi == Max(0, Min(b, Len(s)))
    IN  SubSeq(s, Min(lo, hi) + 1, Max(lo, hi))

\* s.substring(a)
SubstringFrom(s, a) == Substring(s, a, Len(s))

\* s.indexOf(pat): 0-based index of the first occurrence, -1 when absent
IndexOf(s, pat) ==
    LET hits == {i \in 0..(Len(s) - Len(pat)) : SubSeq(s, i + 1, i + Len(pat)) = pat}
    IN  IF hits = {} THEN -1 ELSE CHOOSE i \in hits : \A j \in hits : i <= j

\* s.includes(pat)
Includes(s, pat) == IndexOf(s, pat) # -1

\* s.startsWith(pat)
StartsWith(s, pat) == Len(s) >= Len(pat) /\ SubSeq(s, 1, Len(pat)) = pat

\* s.trim()
Trim(s) ==
    LET keep == {i \in 1..Len(s) : s[i] \notin WhiteSpace}
    IN  IF keep = {} THEN << >>
        ELSE SubSeq(s, CHOOSE i \in keep : \A j \in keep : i <= j,
                       CHOOSE i \in keep : \A j \in keep : i >= j)

\* s.split(sep) for a one-character separator: always at least one piece
RECURSIVE Split(_, _)
Split(s, sep) ==
    LET i == IndexOf(s, <<sep>>)
    IN  IF i = -1 THEN <<s>>
        ELSE <<Substring(s, 0, i)>> \o Split(SubstringFrom(s, i + 1), sep)

\* parts.join(sep)
RECURSIVE Join(_, _)
Join(parts, sep) ==
    IF Len(parts) = 0 THEN << >>
    ELSE IF Len(parts) = 1 THEN parts[1]
    ELSE parts[1] \o <<sep>> \o Join(Tail(parts), sep)

\* s.replace(c, ""): removes the first occurrence only
ReplaceFirst(s, c) ==
    LET i == IndexOf(s, <<c>>)
    IN  IF i = -1 THEN s ELSE Substring(s, 0, i) \o SubstringFrom(s, i + 1)

\* s.replaceAll(c, "")
ReplaceAll(s, c) == SelectSeq(s, LAMBDA x : x # c)

----------------------------------------------------------------------------
(* Record<string, string>: the properties in insertion order *)

Keys(rec) == {rec[i].k : i \in DOMAIN rec}

Has(rec, key) == key \in Keys(rec)

Get(rec, key) == rec[CHOOSE i \in DOMAIN rec : rec[i].k = key].v

\* a slip: the first value of a key is kept
Put_KeepFirst(rec, key, value) ==
    IF Has(rec, key) THEN rec ELSE Append(rec, [k |-> key, v |-> value])

\* rec[key] = value: overwrites in place, or appends a new property
Put(rec, key, value) ==
    IF Has(rec, key)
    THEN [i \in DOMAIN rec |-> IF rec[i].k = key THEN [k |-> key, v |-> value] ELSE rec[i]]
    ELSE Append(rec, [k |-> key, v |-> value])

----------------------------------------------------------------------------
(* fetchGemData: the {{Item template parser *)

Null == << >>

Some(x) == <<x>>

ItemMarker == <<"{", "{", "Item">>

CloseBraces == <<"}", "}">>

\* parts[0].replace("|", "") in index.ts and part_002:47,
\* parts[0].replaceAll("|", "") in part_002:183
StripPipe(v, s) == IF v = "part001" THEN ReplaceAll(s, "|") ELSE ReplaceFirst(s, "|")

KeyPart(v, line) == Trim(StripPipe(v, Split(line, "=")[1]))

\* a slip: parts[1] instead of parts.slice(1).join("=")
ValuePart_SecondPieceOnly(line) == Trim(Split(line, "=")[2])

ValuePart(line) == Trim(Join(Tail(Split(line, "=")), "="))

\* a slip: the key is not tested with `if (keyPart)`
ParseLine_AnyKey(v, st, line) ==
    IF Trim(line) = CloseBraces
    THEN [st EXCEPT !.stop = TRUE]
    ELSE IF Includes(line, <<"=">>)
    THEN [st EXCEPT !.currentKey = KeyPart(v, line),
                    !.result = Put(st.result, KeyPart(v, line), ValuePart(line))]
    ELSE IF st.currentKey # << >> /\ ~StartsWith(Trim(line), <<"|">>)
    THEN [st EXCEPT !.result = Put(st.result, st.currentKey,
                                   Get(st.result, st.currentKey) \o <<NL>> \o Trim(line))]
    ELSE st

\* a slip: the continuation line is appended without trim()
ParseLine_Untrimmed(v, st, line) ==
    IF Trim(line) = CloseBraces
    THEN [st EXCEPT !.stop = TRUE]
    ELSE IF Includes(line, <<"=">>)
    THEN IF KeyPart(v, line) # << >>
         THEN [st EXCEPT !.currentKey = KeyPart(v, line),
                         !.result = Put(st.result, KeyPart(v, line), ValuePart(line))]
         ELSE st
    ELSE IF st.currentKey # << >> /\ ~StartsWith(Trim(line), <<"|">>)
    THEN [st EXCEPT !.result = Put(st.result, st.currentKey,
                                   Get(st.result, st.currentKey) \o <<NL>> \o line)]
    ELSE st

\* One iteration of `for (const line of lines)`; st = [result, currentKey, stop]
ParseLine(v, st, line) ==
    IF Trim(line) = CloseBraces
    THEN [st EXCEPT !.stop = TRUE]
    ELSE IF Includes(line, <<"=">>)
    THEN IF KeyPart(v, line) # << >>
         THEN [st EXCEPT !.currentKey = KeyPart(v, line),
                         !.result = Put(st.result, KeyPart(v, line), ValuePart(line))]
         ELSE st
    ELSE IF st.currentKey # << >> /\ ~StartsWith(Trim(line), <<"|">>)
    THEN [st EXCEPT !.result = Put(st.result, st.currentKey,
                                   Get(st.result, st.currentKey) \o <<NL>> \o Trim(line))]
    ELSE st

ParseStart == [result |-> << >>, currentKey |-> << >>, stop |-> FALSE]

\* The whole loop over lines[i..], stopping at the break
RECURSIVE ParseLoop(_, _, _, _)
ParseLoop(v, st, lines, i) ==
    IF i > Len(lines) \/ st.stop THEN st
    ELSE ParseLoop(v, ParseLine(v, st, lines[i]), lines, i + 1)

RawKey == <<"raw">>

\* What is returned when the page has no {{Item: {raw: ...} in index.ts:139
\* and part_002:27, null in part_002:163-167
NoTemplateResult(v, content) ==
    IF v = "part001" THEN Null
    ELSE Some(<<[k |-> RawKey, v |-> Substring(content, 0, MAX_PREVIEW_LENGTH)]>>)

\* The template part of fetchGemData, from `content.indexOf("{{Item")` to `return result`
ParseTemplate(v, content) ==
    LET startIdx == IndexOf(content, ItemMarker)
    IN  IF startIdx = -1 THEN NoTemplateResult(v, content)
        ELSE Some(ParseLoop(v, ParseStart, Split(SubstringFrom(content, startIdx), NL), 1).result)

----------------------------------------------------------------------------
(* Page contents given to the parser *)

Variants == {"index", "part000", "part001"}

\* Lines of a template body: "|a=x", "|a = y=z", "|b=x}}", "|b={{c", " c ",
\* "}}", "| j", "| =v", "", "||a=u"
BodyLinePool ==
    { <<"|", "a", "=", "x">>,
      <<"|", "a", " ", "=", " ", "y", "=", "z">>,
      <<"|", "b", "=", "x", "}", "}">>,
      <<"|", "b", "=", "{", "{", "c">>,
      <<" ", "c", " ">>,
      <<"}", "}">>,
      <<"|", " ", "j">>,
      <<"|", " ", "=", "v">>,
      << >>,
      <<"|", "|", "a", "=", "u">> }

RECURSIVE SeqsUpTo(_, _)
SeqsUpTo(S, n) ==
    IF n = 0 THEN {<< >>}
    ELSE LET shorter == SeqsUpTo(S, n - 1)
         IN  shorter \cup {Append(q, x) : q \in {r \in shorter : Len(r) = n - 1}, x \in S}

Bodies == SeqsUpTo(BodyLinePool, MaxBodyLines)

\* Text in front of the template: nothing, or a line "|z=q" of another template
Preambles == {<< >>, <<"|", "z", "=", "q", NL>>}

WithTemplate(pre, body) ==
    pre \o ItemMarker \o (IF body = << >> THEN << >> ELSE <<NL>> \o Join(body, NL))

ParseContents ==
    {WithTemplate(pre, body) : pre \in Preambles, body \in Bodies}
    \cup {Join(body, NL) : body \in Bodies}

----------------------------------------------------------------------------
(* fetchGemData's template parser, one loop iteration per step *)

NoCall == [tool |-> "none", arg |-> "none", gemTags |-> << >>]

ServerIdle ==
    /\ cache = {}
    /\ now = 0
    /\ ticks = 0
    /\ pc = "idle"
    /\ call = NoCall
    /\ request = Null
    /\ lookupDone = FALSE
    /\ response = Null
    /\ lastCall = Null
    /\ failures = 0

ParserIdle ==
    /\ pContent = << >>
    /\ pLines = << >>
    /\ pIdx = 0
    /\ result = << >>
    /\ currentKey = << >>
    /\ pState = "off"
    /\ pReturn = Null

ExtractorIdle ==
    /\ xContent = << >>
    /\ xGems = << >>
    /\ xState = "off"

CleanerIdle ==
    /\ rawStatText = << >>
    /\ cleanStats = << >>
    /\ cleanedAgain = << >>
    /\ cState = "off"

InitParse ==
    /\ variant \in Variants
    /\ ServerIdle
    /\ ExtractorIdle
    /\ CleanerIdle
    /\ pContent \in ParseContents
    /\ pLines = << >>
    /\ pIdx = 0
    /\ result = << >>
    /\ currentKey = << >>
    /\ pState = "start"
    /\ pReturn = Null

\* const startIdx = content.indexOf("{{Item"); if (startIdx === -1) return ...
PNoTemplate ==
    /\ pState = "start"
    /\ IndexOf(pContent, ItemMarker) = -1
    /\ pReturn' = NoTemplateResult(variant, pContent)
    /\ pState' = "done"
    /\ UNCHANGED <<pContent, pLines, pIdx, result, currentKey>>

\* const lines = content.substring(startIdx).split("\n"); let currentKey = "";
PSplitLines ==
    /\ pState = "start"
    /\ IndexOf(pContent, ItemMarker) # -1
    /\ pLines' = Split(SubstringFrom(pContent, IndexOf(pContent, ItemMarker)), NL)
    /\ pIdx' = 0
    /\ result' = << >>
    /\ currentKey' = << >>
    /\ pState' = "loop"
    /\ UNCHANGED <<pContent, pReturn>>

\* one iteration that does not break
PLine ==
    /\ pState = "loop"
    /\ pIdx < Len(pLines)
    /\ LET st == ParseLine(variant, [result |-> result, currentKey |-> currentKey,
                                     stop |-> FALSE], pLines[pIdx + 1])
       IN  /\ ~st.stop
           /\ result' = st.result
           /\ currentKey' = st.currentKey
    /\ pIdx' = pIdx + 1
    /\ UNCHANGED <<pContent, pLines, pState, pReturn>>

\* if (line.trim() === "}}") break; ... return result
PBreak ==
    /\ pState = "loop"
    /\ pIdx < Len(pLines)
    /\ ParseLine(variant, [result |-> result, currentKey |-> currentKey,
                           stop |-> FALSE], pLines[pIdx + 1]).stop
    /\ pReturn' = Some(result)
    /\ pState' = "done"
    /\ UNCHANGED <<pContent, pLines, pIdx, result, currentKey>>

\* the loop runs out of lines; return result
PEndOfInput ==
    /\ pState = "loop"
    /\ pIdx = Len(pLines)
    /\ pReturn' = Some(result)
    /\ pState' = "done"
    /\ UNCHANGED <<pContent, pLines, pIdx, result, currentKey>>

NextParse ==
    \/ (PNoTemplate /\ UNCHANGED <<variant, serverVars, extractVars, cleanVars>>)
    \/ (PSplitLines /\ UNCHANGED <<variant, serverVars, extractVars, cleanVars>>)
    \/ (PLine /\ UNCHANGED <<variant, serverVars, extractVars, cleanVars>>)
    \/ (PBreak /\ UNCHANGED <<variant, serverVars, extractVars, cleanVars>>)
    \/ (PEndOfInput /\ UNCHANGED <<variant, serverVars, extractVars, cleanVars>>)

SpecParse == InitParse /\ [][NextParse]_vars

\* The loop taken step by step returns what ParseTemplate, which the handlers
\* use, returns
StepwiseAgrees == pState = "done" => pReturn = ParseTemplate(variant, pContent)

----------------------------------------------------------------------------
(* get_gem_info: the cleanup of stat_text (four global regex replacements) *)

\* what "." does not match
LineTerminators == {"\n", "\r"}

MinOf(S) == CHOOSE x \in S : \A y \in S : x <= y

NoLineBreak(s, a, b) == \A t \in a..b : s[t] \notin LineTerminators

\* the literal pat stands in s at position i (1-based)
MatchesAt(s, i, pat) == i + Len(pat) - 1 <= Len(s) /\ SubSeq(s, i, i + Len(pat) - 1) = pat

\* /{{c\|.*?\|(.*?)}}/ tried at position i (1-based)
ColourMatch(s, i) ==
    LET bars == {j \in (i + 4)..Len(s) : s[j] = "|"}
        j == MinOf(bars)
        closes == {k \in (j + 1)..(Len(s) - 1) : s[k] = "}" /\ s[k + 1] = "}"}
        k == MinOf(closes)
    IN  IF /\ MatchesAt(s, i, <<"{", "{", "c", "|">>)
           /\ bars # {}
           /\ NoLineBreak(s, i + 4, j - 1)
           /\ closes # {}
           /\ NoLineBreak(s, j + 1, k - 1)
        THEN [ok |-> TRUE, cap |-> SubSeq(s, j + 1, k - 1), next |-> k + 2]
        ELSE [ok |-> FALSE, cap |-> << >>, next |-> i]

\* /\[\[(?:[^|\]]*\|)?([^\]]+)\]\]/ tried at position i (1-based)
LinkMatch(s, i) ==
    LET stops == {p \in (i + 2)..Len(s) : s[p] \in {"|", "]"}}
        p == MinOf(stops)
        piped == stops # {} /\ s[p] = "|"
        endsP == {m \in (p + 1)..Len(s) : s[m] = "]"}
        mP == MinOf(endsP)
        okP == piped /\ endsP # {} /\ mP > p + 1 /\ mP < Len(s) /\ s[mP + 1] = "]"
        endsB == {m \in (i + 2)..Len(s) : s[m] = "]"}
        mB == MinOf(endsB)
        okB == endsB # {} /\ mB > i + 2 /\ mB < Len(s) /\ s[mB + 1] = "]"
    IN  IF ~MatchesAt(s, i, <<"[", "[">>) THEN [ok |-> FALSE, cap |-> << >>, next |-> i]
        ELSE IF okP THEN [ok |-> TRUE, cap |-> SubSeq(s, p + 1, mP - 1), next |-> mP + 2]
        ELSE IF okB THEN [ok |-> TRUE, cap |-> SubSeq(s, i + 2, mB - 1), next |-> mB + 2]
        ELSE [ok |-> FALSE, cap |-> << >>, next |-> i]

\* /<.*?>/ tried at position i (1-based)
TagMatch(s, i) ==
    LET ends == {k \in (i + 1)..Len(s) : s[k] = ">"}
        k == MinOf(ends)
    IN  IF s[i] = "<" /\ ends # {} /\ NoLineBreak(s, i + 1, k - 1)
        THEN [ok |-> TRUE, cap |-> << >>, next |-> k + 1]
        ELSE [ok |-> FALSE, cap |-> << >>, next |-> i]

NbspEntity == <<"&", "n", "b", "s", "p", ";">>

\* /&nbsp;/ tried at position i (1-based), replaced by " "
NbspMatch(s, i) ==
    IF MatchesAt(s, i, NbspEntity)
    THEN [ok |-> TRUE, cap |-> <<" ">>, next |-> i + 6]
    ELSE [ok |-> FALSE, cap |-> << >>, next |-> i]

\* the four patterns of the pipeline
MatchOf(pattern, s, i) ==
    CASE pattern = "colour" -> ColourMatch(s, i)
      [] pattern = "link" -> LinkMatch(s, i)
      [] pattern = "tag" -> TagMatch(s, i)
      [] pattern = "nbsp" -> NbspMatch(s, i)

ReplaceGlobal_FirstOnly(pattern, s, i) ==
    LET hits == {j \in i..Len(s) : MatchOf(pattern, s, j).ok}
        m == MatchOf(pattern, s, MinOf(hits))
    IN  IF hits = {} THEN SubSeq(s, i, Len(s))
        ELSE SubSeq(s, i, MinOf(hits) - 1) \o m.cap \o SubSeq(s, m.next, Len(s))

\* s.replace(/.../g, ...): leftmost matches, left to right, never rescanned
RECURSIVE ReplaceGlobal(_, _, _)
ReplaceGlobal(pattern, s, i) ==
    IF i > Len(s) THEN << >>
    ELSE LET m == MatchOf(pattern, s, i)
         IN  IF m.ok THEN m.cap \o ReplaceGlobal(pattern, s, m.next)
             ELSE <<s[i]>> \o ReplaceGlobal(pattern, s, i + 1)

CleanText(raw) ==
    ReplaceGlobal("nbsp",
        ReplaceGlobal("tag",
            ReplaceGlobal("link",
                ReplaceGlobal("colour", raw, 1), 1), 1), 1)

----------------------------------------------------------------------------
(* fetchCompatibleSupports(gemName): the recommended-supports extractor *)

\* toLowerCase on the words the pages use
LowerChar(c) ==
    CASE c = "Recommended" -> "recommended"
      [] c = "RECOMMENDED" -> "recommended"
      [] c = "Support" -> "support"
      [] c = "Gems" -> "gems"
      [] c = "Other" -> "other"
      [] OTHER -> c

ToLowerCase(s) == [i \in DOMAIN s |-> LowerChar(s[i])]

TemplateSection == <<"{", "{", "recommended", " ", "support", " ", "gems">>

HeadingSection == <<"=", "=", "recommended", " ", "support", " ", "gems", "=", "=">>

\* /{{il\|([^}|]+)(?:\|[^}]+)?}}/ tried at position i (1-based)
IlMatch(s, i) ==
    LET a == i + 4
        stops == {e \in a..Len(s) : s[e] \in {"}", "|"}}
        e == MinOf(stops)
        closes == {f \in (e + 1)..Len(s) : s[f] = "}"}
        f == MinOf(closes)
        no == [ok |-> FALSE, cap |-> << >>, next |-> i]
    IN  IF ~MatchesAt(s, i, <<"{", "{", "il", "|">>) \/ stops = {} THEN no
        ELSE IF e = a THEN no
        ELSE IF s[e] = "}"
        THEN IF MatchesAt(s, e, CloseBraces)
             THEN [ok |-> TRUE, cap |-> SubSeq(s, a, e - 1), next |-> e + 2]
             ELSE no
        ELSE IF closes # {} /\ f > e + 1 /\ MatchesAt(s, f, CloseBraces)
        THEN [ok |-> TRUE, cap |-> SubSeq(s, a, e - 1), next |-> f + 2]
        ELSE no

\* line.matchAll(...): the first capture group of every match, left to right
RECURSIVE IlNames(_, _)
IlNames(line, i) ==
    IF i > Len(line) THEN << >>
    ELSE LET m == IlMatch(line, i)
         IN  IF m.ok THEN <<m.cap>> \o IlNames(line, m.next)
             ELSE IlNames(line, i + 1)

InSeq(x, q) == \E i \in DOMAIN q : q[i] = x

PushName_Repeats(gems, name) ==
    IF name # << >> THEN Append(gems, name) ELSE gems

\* if (name && !gems.includes(name)) gems.push(name)   (gemsSet.add(name))
PushName(gems, name) ==
    IF name # << >> /\ ~InSeq(name, gems) THEN Append(gems, name) ELSE gems

\* for (const match of matches) { const name = match[1].trim(); ... }
RECURSIVE AddNames(_, _)
AddNames(gems, names) ==
    IF names = << >> THEN gems
    ELSE AddNames(PushName(gems, Trim(Head(names))), Tail(names))

IsOtherHeading_AnyHeading(line) ==
    StartsWith(Trim(line), <<"=", "=">>)

\* the first break: a heading that is not the recommended section
IsOtherHeading(line) ==
    StartsWith(Trim(line), <<"=", "=">>) /\ ~Includes(ToLowerCase(line), <<"recommended">>)

RECURSIVE ScanLoop(_, _, _)
ScanLoop(gems, lines, i) ==
    IF i > Len(lines) THEN gems
    ELSE IF IsOtherHeading(lines[i]) THEN gems
    ELSE LET more == AddNames(gems, IlNames(lines[i], 1))
         IN  IF Trim(lines[i]) = CloseBraces THEN more
             ELSE ScanLoop(more, lines, i + 1)

\* from `content.toLowerCase().indexOf(...)` to the list of names
ExtractSupports(content) ==
    LET t == IndexOf(ToLowerCase(content), TemplateSection)
        startIdx == IF t # -1 THEN t ELSE IndexOf(ToLowerCase(content), HeadingSection)
    IN  IF startIdx = -1 THEN << >>
        ELSE ScanLoop(<< >>, Split(SubstringFrom(content, startIdx), NL), 1)

----------------------------------------------------------------------------
(* The wiki's answers *)

\* An HTTP exchange: fetch() rejects; or resolves with a status (ok), a body
\* that is JSON or not, and in the JSON the parts the code reads.  list is
\* the names array of opensearch or the rows of cargoquery, Null when absent.
GoodResponse ==
    [rejects |-> FALSE, ok |-> TRUE, validJson |-> TRUE, hasPages |-> TRUE,
     pageId |-> "42", hasRevisions |-> TRUE, hasSlots |-> TRUE,
     content |-> << >>, list |-> Null]

GemPage ==
    <<"{", "{", "Item", NL,
      "|", "name", " ", "=", " ", "Gas", NL,
      "|", "gem_tags", " ", "=", " ", "Attack", ",", " ", "AoE", NL,
      "|", "stat_text", " ", "=", " ", "{", "{", "c", "|", "gem", "|", "Impact", "}", "}", "<", "br", ">", NL,
      "[", "[", "Fire", "]", "]", NL,
      "}", "}", NL,
      "=", "=", "Recommended", " ", "Support", " ", "Gems", "=", "=", NL,
      "{", "{", "il", "|", "Fire", "}", "}", NL,
      "{", "{", "il", "|", "Fire", "}", "}", " ", "{", "{", "il", "|", "Cold", "|", "D", "}", "}", NL,
      "=", "=", "Other", "=", "=", NL,
      "{", "{", "il", "|", "Late", "}", "}">>

UntaggedPage ==
    <<"{", "{", "Item", NL, "|", "name", "=", "Gas", NL, "|", "gem_tags", " ", "=", NL, "}", "}">>

PlainPage == <<"just", " ", "text">>

RecommendedPage ==
    <<"{", "{", "Recommended", " ", "Support", " ", "Gems", NL,
      "|", "{", "{", "il", "|", "Fire", "}", "}", NL, "}", "}", NL,
      "{", "{", "il", "|", "Late", "}", "}">>

ServerContents == {<< >>, PlainPage, GemPage, UntaggedPage, RecommendedPage}

PageIds == {"-1", "42"}

PageResponses ==
    {[GoodResponse EXCEPT !.rejects = TRUE]}
    \cup {[GoodResponse EXCEPT !.ok = o, !.validJson = FALSE] : o \in BOOLEAN}
    \cup {[GoodResponse EXCEPT !.ok = o, !.hasPages = FALSE] : o \in BOOLEAN}
    \cup {[GoodResponse EXCEPT !.pageId = id, !.hasRevisions = FALSE] : id \in PageIds}
    \cup {[GoodResponse EXCEPT !.hasSlots = FALSE]}
    \cup {[GoodResponse EXCEPT !.ok = o, !.pageId = id, !.content = c] :
            o \in BOOLEAN, id \in PageIds, c \in ServerContents}

FireRow == [name |-> <<"Fire">>, gem_tags |-> <<"Attack">>, description |-> <<"d">>]

ColdRow == [name |-> <<"Cold">>, gem_tags |-> <<"AoE">>, description |-> <<"e">>]

ListResponses ==
    {[GoodResponse EXCEPT !.rejects = TRUE]}
    \cup {[GoodResponse EXCEPT !.ok = o, !.validJson = FALSE] : o \in BOOLEAN}
    \cup {[GoodResponse EXCEPT !.ok = o, !.list = l] :
            o \in BOOLEAN, l \in {Null, Some(<< >>), Some(<<FireRow>>), Some(<<FireRow, ColdRow>>)}}

\* the network call failed: rejected, non-success status, or unreadable body
NetworkFailed(r) == r.rejects \/ ~r.ok \/ ~r.validJson

----------------------------------------------------------------------------
(* The fetch functions *)

Threw == [threw |-> TRUE, value |-> Null]

Returned(x) == [threw |-> FALSE, value |-> x]

\* a slip: the `pageId === "-1"` test is left out
InlinePageContent_NoMissingCheck(r) ==
    IF r.rejects THEN Threw
    ELSE IF ~r.validJson THEN Threw
    ELSE IF ~r.hasPages THEN Returned(Null)
    ELSE IF ~r.hasRevisions \/ ~r.hasSlots THEN Threw
    ELSE Returned(Some(r.content))

\* index.ts:129-136 and part_002:16-23: the body of the try up to `content`
InlinePageContent(r) ==
    IF r.rejects THEN Threw
    ELSE IF ~r.validJson THEN Threw
    ELSE IF ~r.hasPages THEN Returned(Null)
    ELSE IF r.pageId = "-1" THEN Returned(Null)
    ELSE IF ~r.hasRevisions \/ ~r.hasSlots THEN Threw
    ELSE Returned(Some(r.content))

\* part_002:113-145; an empty content is falsy
fetchWikiPageContent(r) ==
    IF r.rejects THEN Threw
    ELSE IF ~r.ok THEN Threw
    ELSE IF ~r.validJson THEN Threw
    ELSE IF ~r.hasPages THEN Returned(Null)
    ELSE IF r.pageId = "-1" THEN Returned(Null)
    ELSE IF ~r.hasRevisions THEN Returned(Null)
    ELSE IF ~r.hasSlots \/ r.content = << >> THEN Returned(Null)
    ELSE Returned(Some(r.content))

\* the body of fetchGemData's try block
GemDataTry(v, r) ==
    LET page == IF v = "part001" THEN fetchWikiPageContent(r) ELSE InlinePageContent(r)
    IN  IF page.threw THEN Threw
        ELSE IF page.value = Null THEN Returned(Null)
        ELSE Returned(ParseTemplate(v, page.value[1]))

\* try { ... } catch (error) { console.error(...); return null; }
fetchGemData(v, r) ==
    LET t == GemDataTry(v, r) IN IF t.threw THEN Returned(Null) ELSE t

\* index.ts:189-196: the body of the try up to `content`, with optional chaining
ChainedPageContent(r) ==
    IF r.rejects THEN Threw
    ELSE IF ~r.validJson THEN Threw
    ELSE IF ~r.hasPages THEN Returned(Null)
    ELSE IF ~r.hasRevisions \/ ~r.hasSlots \/ r.content = << >> THEN Returned(Null)
    ELSE Returned(Some(r.content))

SupportInfo(name) == [name |-> name, description |-> <<"Recommended Support Gem">>]

\* the body of the try block of fetchCompatibleSupports(gemName)
SupportsByNameTry(v, r) ==
    LET page == IF v = "part001" THEN fetchWikiPageContent(r) ELSE ChainedPageContent(r)
    IN  IF page.threw THEN Threw
        ELSE IF page.value = Null THEN Returned(<< >>)
        ELSE LET gems == ExtractSupports(page.value[1])
             IN  Returned([i \in DOMAIN gems |-> SupportInfo(gems[i])])

\* fetchCompatibleSupports(gemName): index.ts:176-238, part_002:219-270
fetchCompatibleSupports(v, r) ==
    LET t == SupportsByNameTry(v, r) IN IF t.threw THEN Returned(<< >>) ELSE t

\* the body of the try block of fetchCompatibleSupports(tags), part_002:92-95
SupportsByTagsTry(r) ==
    IF r.rejects THEN Threw
    ELSE IF ~r.validJson THEN Threw
    ELSE IF r.list = Null THEN Returned(<< >>)
    ELSE Returned(r.list[1])

\* fetchCompatibleSupports(tags): part_002:71-100
fetchCompatibleSupportsByTags(r) ==
    LET t == SupportsByTagsTry(r) IN IF t.threw THEN Returned(<< >>) ELSE t

----------------------------------------------------------------------------
(* The tool handlers *)

GemNames == {"Gas Grenade", "Nope"}

\* cache.get(key): the entry, or Null (undefined)
CacheGet(c, key) ==
    IF \E e \in c : e.key = key THEN Some(CHOOSE e \in c : e.key = key) ELSE Null

\* a slip: <= instead of <
CacheHit_Inclusive(cached, t) == cached # Null /\ t - cached[1].timestamp <= CACHE_TTL_MS

\* cached && Date.now() - cached.timestamp < 3600000
CacheHit(cached, t) == cached # Null /\ t - cached[1].timestamp < CACHE_TTL_MS

\* data.field || fallback
Field(data, key, fallback) ==
    IF Has(data, key) /\ Get(data, key) # << >> THEN Get(data, key) ELSE fallback

CachedText(data) == [kind |-> "cached", data |-> data]

NotFoundText(gemName) == [kind |-> "Could not find gem", gemName |-> gemName]

SummaryText(gemName, data) ==
    [kind |-> "summary",
     name |-> Field(data, <<"name">>, <<gemName>>),
     tags |-> Field(data, <<"gem_tags">>, <<"N/A">>),
     description |-> Field(data, <<"gem_description">>, <<"N/A">>),
     requirement |-> Field(data, <<"equipment_requirement">>, <<"N/A">>),
     cooldown |-> Field(data, <<"static_cooldown">>, <<"None">>),
     cleanStats |-> CleanText(Field(data, <<"stat_text">>, << >>)),
     level1 |-> Field(data, <<"level1_damage_multiplier">>, <<"N/A">>),
     level20 |-> Field(data, <<"level20_damage_multiplier">>, <<"N/A">>)]

FullDataText(data) == [kind |-> "FULL_DATA_JSON", data |-> data]

\* get_gem_info after `await fetchGemData(gemName)`: the returned content
GetGemInfoContent(gemName, data, cached, t) ==
    IF CacheHit(cached, t) THEN <<CachedText(cached[1].data)>>
    ELSE IF data = Null THEN <<NotFoundText(gemName)>>
    ELSE <<SummaryText(gemName, data[1]), FullDataText(data[1])>>

\* search_gems after `await fetch(url)`: `const [, names] = await response.json()`
\* throws when the body is no JSON or has no names array
SearchGemsTry(r) ==
    IF r.rejects \/ ~r.validJson \/ r.list = Null THEN Threw
    ELSE IF Len(r.list[1]) > 0
    THEN Returned(<<[kind |-> "Found", names |-> [i \in DOMAIN r.list[1] |-> r.list[1][i].name]]>>)
    ELSE Returned(<<[kind |-> "No gems found matching that name."]>>)

\* get_compatible_supports of part_001 after `await fetchCompatibleSupports(gemName)`
RecommendedContent(gemName, supports) ==
    IF Len(supports) = 0
    THEN <<[kind |-> "No recommended supports found", gemName |-> gemName]>>
    ELSE <<[kind |-> "Recommended Supports", gemName |-> gemName,
            names |-> [i \in DOMAIN supports |-> supports[i].name]]>>

NoTagsText(gemName) == [kind |-> "Could not find tags", gemName |-> gemName]

\* !activeGem || !activeGem.gem_tags
NoTags(data) == data = Null \/ ~Has(data[1], <<"gem_tags">>) \/ Get(data[1], <<"gem_tags">>) = << >>

TagsOf_Untrimmed(gemTags) == Split(gemTags, ",")

\* activeGem.gem_tags.split(",").map((t) => t.trim())
TagsOf(gemTags) == LET parts == Split(gemTags, ",") IN [i \in DOMAIN parts |-> Trim(parts[i])]

\* get_compatible_supports of part_000 after `await fetchCompatibleSupports(tags)`
CompatibleContent(gemName, gemTags, supports) ==
    IF Len(supports) = 0
    THEN <<[kind |-> "No matching support gems found", tags |-> gemTags]>>
    ELSE <<[kind |-> "Compatible Supports", gemName |-> gemName, tags |-> gemTags,
            supports |-> supports]>>

\* the tools each revision registers
Tools(v) ==
    IF v = "index" THEN {"get_gem_info", "search_gems"}
    ELSE {"get_gem_info", "get_compatible_supports"}

PageRequest(title) == [api |-> "query", arg |-> <<title>>]

\* What an invocation did: its tool and argument, whether an exception left
\* the handler, the content returned, what fetchGemData gave (Null: null, or
\* not called), whether its network call failed, and the time it ended
Completed(c, threw, content, data, failed) ==
    Some([tool |-> c.tool, arg |-> c.arg, threw |-> threw, content |-> content,
          data |-> data, failed |-> failed, at |-> now])

CountFailure(failed) == IF failed /\ failures < MaxFailures THEN failures + 1 ELSE failures

----------------------------------------------------------------------------
(* The server: one invocation at a time; a handler is suspended only at an await *)

Init ==
    /\ variant \in Variants
    /\ ServerIdle
    /\ ParserIdle
    /\ ExtractorIdle
    /\ CleanerIdle

\* Date.now() advances
Tick ==
    /\ ticks < MaxTicks
    /\ \E dt \in {1, CACHE_TTL_MS - 1} : now' = now + dt
    /\ ticks' = ticks + 1
    /\ UNCHANGED <<cache, pc, call, request, lookupDone, response, lastCall, failures>>

\* get_gem_info up to `await fetchGemData(gemName)`: the page query is sent
GetGemInfoCall(gemName) ==
    /\ pc = "idle"
    /\ "get_gem_info" \in Tools(variant)
    /\ call' = [tool |-> "get_gem_info", arg |-> gemName, gemTags |-> << >>]
    /\ request' = Some(PageRequest(gemName))
    /\ lookupDone' = FALSE
    /\ pc' = "awaitGemData"
    /\ response' = Null
    /\ lastCall' = Null
    /\ UNCHANGED <<cache, now, ticks, failures>>

\* get_gem_info from the answer of the wiki to its return
GetGemInfoReturn(r) ==
    /\ pc = "awaitGemData"
    /\ call.tool = "get_gem_info"
    /\ LET data == fetchGemData(variant, r).value
           cached == CacheGet(cache, call.arg)
       IN  lastCall' = Completed(call, FALSE,
                                 GetGemInfoContent(call.arg, data, cached, now),
                                 data, NetworkFailed(r))
    /\ lookupDone' = TRUE
    /\ response' = Some(r)
    /\ failures' = CountFailure(NetworkFailed(r))
    /\ request' = Null
    /\ pc' = "idle"
    /\ call' = NoCall
    /\ UNCHANGED <<cache, now, ticks>>

\* search_gems up to `await fetch(url)`
SearchGemsCall(query) ==
    /\ pc = "idle"
    /\ "search_gems" \in Tools(variant)
    /\ call' = [tool |-> "search_gems", arg |-> query, gemTags |-> << >>]
    /\ request' = Some([api |-> "opensearch", arg |-> <<query>>])
    /\ lookupDone' = FALSE
    /\ pc' = "awaitSearch"
    /\ response' = Null
    /\ lastCall' = Null
    /\ UNCHANGED <<cache, now, ticks, failures>>

\* search_gems from the answer to its return, or to the exception that leaves it
SearchGemsReturn(r) ==
    /\ pc = "awaitSearch"
    /\ LET t == SearchGemsTry(r)
       IN  lastCall' = Completed(call, t.threw, t.value, Null, NetworkFailed(r))
    /\ response' = Some(r)
    /\ failures' = CountFailure(NetworkFailed(r))
    /\ request' = Null
    /\ pc' = "idle"
    /\ call' = NoCall
    /\ UNCHANGED <<cache, now, ticks, lookupDone>>

\* get_compatible_supports up to its first await: both revisions query the page
CompatibleSupportsCall(gemName) ==
    /\ pc = "idle"
    /\ "get_compatible_supports" \in Tools(variant)
    /\ call' = [tool |-> "get_compatible_supports", arg |-> gemName, gemTags |-> << >>]
    /\ request' = Some(PageRequest(gemName))
    /\ lookupDone' = FALSE
    /\ pc' = IF variant = "part001" THEN "awaitSupports" ELSE "awaitGemData"
    /\ response' = Null
    /\ lastCall' = Null
    /\ UNCHANGED <<cache, now, ticks, failures>>

\* part_001: from the answer to `await fetchCompatibleSupports(gemName)` to the return
RecommendedReturn(r) ==
    /\ pc = "awaitSupports"
    /\ lastCall' = Completed(call, FALSE,
                             RecommendedContent(call.arg, fetchCompatibleSupports(variant, r).value),
                             Null, NetworkFailed(r))
    /\ response' = Some(r)
    /\ failures' = CountFailure(NetworkFailed(r))
    /\ request' = Null
    /\ pc' = "idle"
    /\ call' = NoCall
    /\ UNCHANGED <<cache, now, ticks, lookupDone>>

\* part_000: from the answer to `await fetchGemData(gemName)` to the "no tags"
\* return, or to `await fetchCompatibleSupports(tags)`: the cargo query is sent
CompatibleTags(r) ==
    /\ pc = "awaitGemData"
    /\ call.tool = "get_compatible_supports"
    /\ LET data == fetchGemData(variant, r).value
       IN  IF NoTags(data)
           THEN /\ lastCall' = Completed(call, FALSE, <<NoTagsText(call.arg)>>, data,
                                         NetworkFailed(r))
                /\ failures' = CountFailure(NetworkFailed(r))
                /\ request' = Null
                /\ pc' = "idle"
                /\ call' = NoCall
           ELSE /\ call' = [call EXCEPT !.gemTags = Get(data[1], <<"gem_tags">>)]
                /\ request' = Some([api |-> "cargoquery",
                                    arg |-> TagsOf(Get(data[1], <<"gem_tags">>))])
                /\ pc' = "awaitCargo"
                /\ UNCHANGED <<lastCall, failures>>
    /\ response' = Some(r)
    /\ UNCHANGED <<cache, now, ticks, lookupDone>>

\* part_000: from the answer to `await fetchCompatibleSupports(tags)` to the return
CompatibleReturn(r) ==
    /\ pc = "awaitCargo"
    /\ lastCall' = Completed(call, FALSE,
                             CompatibleContent(call.arg, call.gemTags,
                                               fetchCompatibleSupportsByTags(r).value),
                             Null, NetworkFailed(r))
    /\ response' = Some(r)
    /\ failures' = CountFailure(NetworkFailed(r))
    /\ request' = Null
    /\ pc' = "idle"
    /\ call' = NoCall
    /\ UNCHANGED <<cache, now, ticks, lookupDone>>

Next ==
    \/ (Tick /\ UNCHANGED <<variant, parseVars, extractVars, cleanVars>>)
    \/ (\E g \in GemNames : GetGemInfoCall(g) /\ UNCHANGED <<variant, parseVars, extractVars, cleanVars>>)
    \/ (\E r \in PageResponses : GetGemInfoReturn(r) /\ UNCHANGED <<variant, parseVars, extractVars, cleanVars>>)
    \/ (\E q \in GemNames : SearchGemsCall(q) /\ UNCHANGED <<variant, parseVars, extractVars, cleanVars>>)
    \/ (\E r \in ListResponses : SearchGemsReturn(r) /\ UNCHANGED <<variant, parseVars, extractVars, cleanVars>>)
    \/ (\E g \in GemNames : CompatibleSupportsCall(g) /\ UNCHANGED <<variant, parseVars, extractVars, cleanVars>>)
    \/ (\E r \in PageResponses : RecommendedReturn(r) /\ UNCHANGED <<variant, parseVars, extractVars, cleanVars>>)
    \/ (\E r \in PageResponses : CompatibleTags(r) /\ UNCHANGED <<variant, parseVars, extractVars, cleanVars>>)
    \/ (\E r \in ListResponses : CompatibleReturn(r) /\ UNCHANGED <<variant, parseVars, extractVars, cleanVars>>)

Spec == Init /\ [][Next]_vars

----------------------------------------------------------------------------
(* The cache lookup of get_gem_info on every content the Map can have.  No   *)
(* handler writes the Map, so the entries are drawn here.                    *)

StoredRecord == <<[k |-> <<"name">>, v |-> <<"Stored">>]>>

StoredAt == {0, 1}

CacheEntries == {[key |-> g, data |-> StoredRecord, timestamp |-> t] : g \in GemNames, t \in StoredAt}

Caches == {c \in SUBSET CacheEntries : \A e1, e2 \in c : e1.key = e2.key => e1 = e2}

InitCache ==
    /\ variant \in Variants
    /\ cache \in Caches
    /\ now = 0
    /\ ticks = 0
    /\ pc = "idle"
    /\ call = NoCall
    /\ request = Null
    /\ lookupDone = FALSE
    /\ response = Null
    /\ lastCall = Null
    /\ failures = 0
    /\ ParserIdle
    /\ ExtractorIdle
    /\ CleanerIdle

SpecCache == InitCache /\ [][Next]_vars

----------------------------------------------------------------------------
(* Claims about the cache *)

GemInfoDone == lastCall # Null /\ lastCall[1].tool = "get_gem_info"

\* C1 (as claimed): once get_gem_info has obtained a non-null record from
\* fetchGemData, the cache holds an entry for that gemName with that record
\* and the time of insertion.
C1_CacheHoldsFetchedRecord ==
    (GemInfoDone /\ lastCall[1].data # Null) =>
        \E e \in cache : /\ e.key = lastCall[1].arg
                         /\ e.data = lastCall[1].data[1]
                         /\ e.timestamp = lastCall[1].at

\* C2 (as claimed): get_gem_info consults the cache before it contacts the
\* wiki: while its page query is in flight, the lookup has already been made.
C2_LookupBeforeFetch ==
    (request # Null /\ call.tool = "get_gem_info") => lookupDone

\* C3: a lookup is a hit exactly when an entry for the key exists and is
\* younger than 3,600,000 ms at the time of the lookup (a hit answers with
\* the entry's data); and no step of the server changes the cache.
C3_HitIffFresh ==
    GemInfoDone =>
        LET fresh == {e \in cache : /\ e.key = lastCall[1].arg
                                    /\ lastCall[1].at - e.timestamp < 3600000}
        IN  /\ (fresh # {}) <=> (lastCall[1].content[1].kind = "cached")
            /\ \A e \in fresh : lastCall[1].content = <<CachedText(e.data)>>

C3_LazyExpiry == [](C3_HitIffFresh) /\ [][cache' = cache]_vars

\* C3 witness: a lookup that hit an entry in the last millisecond of its life
C3_Witness ==
    /\ GemInfoDone
    /\ lastCall[1].content[1].kind = "cached"
    /\ \E e \in cache : e.key = lastCall[1].arg /\ lastCall[1].at - e.timestamp = 3599999

\* a lookup that missed an entry exactly 3,600,000 ms old
C3_ExpiredReached ==
    /\ GemInfoDone
    /\ lastCall[1].content[1].kind # "cached"
    /\ \E e \in cache : e.key = lastCall[1].arg /\ lastCall[1].at - e.timestamp = 3600000

----------------------------------------------------------------------------
(* Claims about failures *)

\* the wiki answered with readable JSON
Answered == response # Null /\ ~response[1].rejects /\ response[1].validJson

\* the answer has no pages object, or its first page id is "-1"
MissingPage == Answered /\ (~response[1].hasPages \/ response[1].pageId = "-1")

\* C4: when the answer for gemName has no pages object or its first page id
\* is "-1", fetchGemData returns null and get_gem_info returns only the
\* message 'Could not find gem "<gemName>".', without throwing.
C4_MissingPageNotFound ==
    (GemInfoDone /\ MissingPage) =>
        /\ ~lastCall[1].threw
        /\ lastCall[1].data = Null
        /\ lastCall[1].content = <<NotFoundText(lastCall[1].arg)>>

\* C4 witness: get_gem_info answered for a page id "-1"
C4_Witness ==
    /\ GemInfoDone
    /\ Answered
    /\ response[1].hasPages
    /\ response[1].pageId = "-1"
    /\ lastCall[1].content = <<NotFoundText(lastCall[1].arg)>>

\* the answer carries the content of an existing page
PageFound ==
    /\ Answered
    /\ response[1].ok
    /\ response[1].hasPages
    /\ response[1].pageId # "-1"
    /\ response[1].hasRevisions
    /\ response[1].hasSlots

\* C5 (as claimed): when the page exists but its content has no "{{Item",
\* the parse result is null and get_gem_info answers with the not-found
\* message, not with a summary built from a record.
C5_NoTemplateNotFound ==
    (GemInfoDone /\ PageFound /\ ~Includes(response[1].content, ItemMarker)) =>
        /\ lastCall[1].data = Null
        /\ lastCall[1].content = <<NotFoundText(lastCall[1].arg)>>

\* the fetch rejected, the status is not a success, the body is no JSON, or
\* the pages / revisions / slots structure is missing
FetchFailed ==
    /\ response # Null
    /\ \/ NetworkFailed(response[1])
       \/ ~response[1].hasPages
       \/ ~response[1].hasRevisions
       \/ ~response[1].hasSlots

\* C6 (as claimed): in each of these cases fetchGemData resolves to null and
\* fetchCompatibleSupports to an empty list (the handlers then report that
\* nothing was found), and neither throws.
C6_FailuresDowngraded ==
    (lastCall # Null /\ FetchFailed) =>
        /\ lastCall[1].tool = "get_gem_info" => lastCall[1].data = Null
        /\ lastCall[1].tool = "get_compatible_supports" =>
               lastCall[1].content[1].kind \in {"Could not find tags",
                                                "No recommended supports found",
                                                "No matching support gems found"}

\* C7 (as claimed): an invocation whose network call fails completes with a
\* normal text result, and no exception leaves the handler.
C7_NoExceptionEscapes ==
    (lastCall # Null /\ lastCall[1].failed) =>
        /\ ~lastCall[1].threw
        /\ Len(lastCall[1].content) >= 1

----------------------------------------------------------------------------
(* Claims about the template parser (SpecParse) *)

\* the parser has returned a record parsed from a template
Parsed == pState = "done" /\ IndexOf(pContent, ItemMarker) # -1

\* position (1-based) of the "}}" that closes the "{{" opened at the start
\* of s, 0 when there is none; i is the scan position, depth the open braces
RECURSIVE MatchingClose(_, _, _)
MatchingClose(s, i, depth) ==
    IF i > Len(s) THEN 0
    ELSE IF MatchesAt(s, i, <<"{", "{">>) THEN MatchingClose(s, i + 2, depth + 1)
    ELSE IF MatchesAt(s, i, CloseBraces)
    THEN IF depth = 1 THEN i ELSE MatchingClose(s, i + 2, depth - 1)
    ELSE MatchingClose(s, i + 1, depth)

TemplateText == SubstringFrom(pContent, IndexOf(pContent, ItemMarker))

WellFormed == Parsed /\ MatchingClose(TemplateText, 1, 0) # 0

\* the lines between "{{Item" and its matching "}}"
BlockLines == Split(SubSeq(TemplateText, 1, MatchingClose(TemplateText, 1, 0) - 1), NL)

\* the text in front of the first "="
BeforeEquals(line) == Substring(line, 0, IndexOf(line, <<"=">>))

\* the text behind the first "="
AfterEquals(line) == SubstringFrom(line, IndexOf(line, <<"=">>) + 1)

\* the name a line "|name = value" declares, as the running revision reads it
DeclaredName(line) == Trim(StripPipe(variant, BeforeEquals(line)))

DeclaredKeys ==
    {DeclaredName(BlockLines[i]) :
        i \in {j \in DOMAIN BlockLines : /\ StartsWith(Trim(BlockLines[j]), <<"|">>)
                                         /\ Includes(BlockLines[j], <<"=">>)
                                         /\ DeclaredName(BlockLines[j]) # << >>}}

\* C8 (as claimed): for a well-formed Item block the record's keys are
\* exactly the field names declared between "{{Item" and its matching "}}".
C8_KeysAreDeclaredFields ==
    WellFormed => Keys(pReturn[1]) = DeclaredKeys

\* the first line that is the closing marker, Len(pLines) + 1 when none is
ClosingLine ==
    MinOf({i \in DOMAIN pLines : Trim(pLines[i]) = CloseBraces} \cup {Len(pLines) + 1})

\* line i declares a field: it has an "=" and a key in front of it
Declares(i) == Includes(pLines[i], <<"=">>) /\ KeyPart(variant, pLines[i]) # << >>

\* line i is a continuation line: no "=", and no "|" at its trimmed start
Continues(i) == ~Includes(pLines[i], <<"=">>) /\ ~StartsWith(Trim(pLines[i]), <<"|">>)

\* the first declaring line behind i, or the closing line
NextField(i) == MinOf({j \in (i + 1)..(ClosingLine - 1) : Declares(j)} \cup {ClosingLine})

DeclaredOnce(i) ==
    \A j \in 1..(ClosingLine - 1) :
        (Declares(j) /\ KeyPart(variant, pLines[j]) = KeyPart(variant, pLines[i])) => j = i

RECURSIVE Flatten(_, _, _)
\* the trimmed continuation lines among lines[from..to], each behind a "\n"
Flatten(lines, from, to) ==
    IF from > to THEN << >>
    ELSE (IF ~Includes(lines[from], <<"=">>) /\ ~StartsWith(Trim(lines[from]), <<"|">>)
          THEN <<NL>> \o Trim(lines[from]) ELSE << >>)
         \o Flatten(lines, from + 1, to)

\* C9: a field declared once gets the trimmed value of its declaration line
\* followed by the trimmed content of each continuation line that stands
\* before the next field or the closing marker, joined by newlines, in order.
C9_ContinuationLinesJoined ==
    Parsed =>
        \A i \in 1..(ClosingLine - 1) :
            (Declares(i) /\ DeclaredOnce(i)) =>
                Get(pReturn[1], KeyPart(variant, pLines[i]))
                    = Trim(AfterEquals(pLines[i])) \o Flatten(pLines, i + 1, NextField(i) - 1)

\* C9 witness: a field declared once and followed by two continuation lines
C9_Witness ==
    /\ Parsed
    /\ \E i \in 1..(ClosingLine - 1) :
          /\ Declares(i) /\ DeclaredOnce(i)
          /\ i + 2 < NextField(i)
          /\ Continues(i + 1) /\ Continues(i + 2)
          /\ Trim(pLines[i + 1]) # Trim(pLines[i + 2])
          /\ Get(pReturn[1], KeyPart(variant, pLines[i]))
                = Trim(AfterEquals(pLines[i])) \o <<NL>> \o Trim(pLines[i + 1])
                                               \o <<NL>> \o Trim(pLines[i + 2])

\* the line the loop is about to process
CurrentLine == pLines[pIdx + 1]

\* the key in front of the first "=" is not empty, however "|" is stripped
HasKey(line) ==
    /\ Includes(line, <<"=">>)
    /\ \E i \in DOMAIN BeforeEquals(line) : BeforeEquals(line)[i] \notin (WhiteSpace \cup {"|"})

CountOf(s, c) == Cardinality({i \in DOMAIN s : s[i] = c})

\* C10: processing a field line with a non-empty key stores, under that key,
\* the trimmed text behind the first "=" of the line; every later "=" is kept.
C10_ValueKeepsLaterEquals ==
    [][(pState = "loop" /\ pIdx' = pIdx + 1 /\ HasKey(CurrentLine)) =>
            /\ Get(result', currentKey') = Trim(AfterEquals(CurrentLine))
            /\ CountOf(Get(result', currentKey'), "=") = CountOf(CurrentLine, "=") - 1]_vars

\* C10 witness: a stored value that has an "=" in it
C10_Witness ==
    /\ pState = "loop"
    /\ pIdx > 0
    /\ HasKey(pLines[pIdx])
    /\ CountOf(pLines[pIdx], "=") > 1
    /\ Includes(Get(result, currentKey), <<"=">>)

----------------------------------------------------------------------------
(* fetchCompatibleSupports(gemName): the recommendation extractor on page   *)
(* contents built from the lines the code tells apart                       *)

MaxScanLines == 4

RecommendedHeading == <<"=", "=", "Recommended", " ", "Support", " ", "Gems", "=", "=">>

RecommendedTemplate == <<"{", "{", "Recommended", " ", "Support", " ", "Gems">>

FireSupport == <<"Fire", " ", "Support">>

ColdSupport == <<"Cold", " ", "Support">>

FireLine == <<"{", "{", "il", "|">> \o FireSupport \o CloseBraces

ColdLine == <<"{", "{", "il", "|">> \o ColdSupport \o <<"|", "Display">> \o CloseBraces

\* a padded repeat of Fire Support, a name of other case, a blank name
MixedLine ==
    <<"*", " ", "{", "{", "il", "|", " ">> \o FireSupport \o <<" ">> \o CloseBraces
    \o <<" ", "{", "{", "il", "|", "fire", " ", "Support">> \o CloseBraces
    \o <<"{", "{", "il", "|", " ">> \o CloseBraces

OtherHeading == <<" ", "=", "=", "Other", "=", "=">>

ScanLinePool ==
    {RecommendedHeading, RecommendedTemplate, FireLine, ColdLine, MixedLine,
     OtherHeading, <<" ">> \o CloseBraces}

\* '==Recommended Support Gems==', Fire Support twice, Cold Support|Display,
\* '==Other=='
HeadingScenario ==
    Join(<<RecommendedHeading, FireLine, FireLine, ColdLine,
           <<"=", "=", "Other", "=", "=">>>>, NL)

ExtractContents ==
    {Join(ls, NL) : ls \in SeqsUpTo(ScanLinePool, MaxScanLines)} \cup {HeadingScenario}

\* the revisions that have fetchCompatibleSupports(gemName)
RecommendedVariants == {"index", "part001"}

InitExtract ==
    /\ variant \in RecommendedVariants
    /\ ServerIdle
    /\ ParserIdle
    /\ CleanerIdle
    /\ xContent \in ExtractContents
    /\ xGems = << >>
    /\ xState = "start"

SectionStart(content) ==
    LET t == IndexOf(ToLowerCase(content), TemplateSection)
    IN  IF t # -1 THEN t ELSE IndexOf(ToLowerCase(content), HeadingSection)

\* startIdx === -1: the body of `if (startIdx !== -1)` is skipped
XNoSection ==
    /\ xState = "start"
    /\ SectionStart(xContent) = -1
    /\ xGems' = ExtractSupports(xContent)
    /\ xState' = "done"
    /\ UNCHANGED xContent

\* startIdx !== -1: the section is scanned
XScan ==
    /\ xState = "start"
    /\ SectionStart(xContent) # -1
    /\ xGems' = ExtractSupports(xContent)
    /\ xState' = "done"
    /\ UNCHANGED xContent

NextExtract ==
    \/ (XNoSection /\ UNCHANGED <<variant, serverVars, parseVars, cleanVars>>)
    \/ (XScan /\ UNCHANGED <<variant, serverVars, parseVars, cleanVars>>)

SpecExtract == InitExtract /\ [][NextExtract]_vars

----------------------------------------------------------------------------
(* Claims about the recommendation extractor *)

ExtractDone == xState = "done"

NoMarker(content) ==
    /\ IndexOf(ToLowerCase(content), TemplateSection) = -1
    /\ IndexOf(ToLowerCase(content), HeadingSection) = -1

\* the lines from the section start on
SectionLines(content) == Split(SubstringFrom(content, SectionStart(content)), NL)

\* a line at which the scan ends
StopsScan(line) ==
    \/ StartsWith(Trim(line), <<"=", "=">>) /\ ~Includes(ToLowerCase(line), <<"recommended">>)
    \/ Trim(line) = CloseBraces

\* the number of the first such line, one past the last line when there is none
StopLine(lines) ==
    LET stops == {i \in DOMAIN lines : StopsScan(lines[i])}
    IN  IF stops = {} THEN Len(lines) + 1 ELSE MinOf(stops)

\* the trimmed, non-empty names referenced on lines from..to, in order
RECURSIVE NamesOn(_, _, _)
NamesOn(lines, from, to) ==
    IF from > to THEN << >>
    ELSE LET found == IlNames(lines[from], 1)
             trimmed == [i \in DOMAIN found |-> Trim(found[i])]
         IN  SelectSeq(trimmed, LAMBDA n : n # << >>) \o NamesOn(lines, from + 1, to)

\* the names of the scanned window: the lines in front of the stop line
WindowNames(content) ==
    IF NoMarker(content) THEN << >>
    ELSE LET lines == SectionLines(content)
         IN  NamesOn(lines, 1, StopLine(lines) - 1)

\* the names on the stop line and after it
LaterNames(content) ==
    IF NoMarker(content) THEN << >>
    ELSE LET lines == SectionLines(content)
         IN  NamesOn(lines, StopLine(lines), Len(lines))

FirstAt(q, x) == MinOf({i \in DOMAIN q : q[i] = x})

\* C11: the returned list holds no name twice, no empty name, its names in
\* the order of their first appearance in the scanned window, and is empty
\* when the content is empty or has neither section marker
C11_ListIsOrderedSet ==
    ExtractDone =>
        LET occ == WindowNames(xContent)
        IN  /\ \A i, j \in DOMAIN xGems : i # j => xGems[i] # xGems[j]
            /\ \A i \in DOMAIN xGems : xGems[i] # << >> /\ InSeq(xGems[i], occ)
            /\ \A i, j \in DOMAIN xGems :
                   i < j => FirstAt(occ, xGems[i]) < FirstAt(occ, xGems[j])
            /\ (xContent = << >> \/ NoMarker(xContent)) => xGems = << >>

\* a window that repeats a name (once padded) and holds a name of other case
\* and a blank name
C11_Witness ==
    /\ ExtractDone
    /\ \E i, j \in DOMAIN WindowNames(xContent) :
           i # j /\ WindowNames(xContent)[i] = WindowNames(xContent)[j]
    /\ InSeq(FireSupport, xGems)
    /\ InSeq(<<"fire", " ", "Support">>, xGems)
    /\ InSeq(ColdSupport, xGems)

\* C12: the scan ends at the first line from the section start that begins
\* with "==" without the keyword or is "}}": the result holds exactly the
\* names referenced in front of that line, and the heading scenario gives
\* Fire Support, Cold Support
C12_ScanStopsAtSectionEnd ==
    ExtractDone =>
        LET occ == WindowNames(xContent)
        IN  /\ {xGems[i] : i \in DOMAIN xGems} = {occ[i] : i \in DOMAIN occ}
            /\ xContent = HeadingScenario => xGems = <<FireSupport, ColdSupport>>

\* a reference after the stop line that is not in the result
C12_Witness ==
    /\ ExtractDone
    /\ xGems # << >>
    /\ \E i \in DOMAIN LaterNames(xContent) : ~InSeq(LaterNames(xContent)[i], xGems)

C12_ScenarioReached == ExtractDone /\ xContent = HeadingScenario

----------------------------------------------------------------------------
(* get_gem_info: the cleanup of stat_text applied to a text and again to    *)
(* its own output.  A text is a run of pieces: letters, whole constructs    *)
(* and the openers and closers from which nested constructs are built.      *)

MaxPieces == 4

ColourOpen == <<"{", "{", "c", "|", "g", "|">>

LinkOpen == <<"[", "[">>

LinkClose == <<"]", "]">>

PiecePool ==
    {<<"T">>, NbspEntity, <<"<", "i", ">">>, <<"<">>, <<">">>,
     LinkOpen, <<"L", "|">>, LinkClose, ColourOpen, CloseBraces}

RECURSIVE Concat(_)
Concat(pieces) ==
    IF pieces = << >> THEN << >> ELSE Head(pieces) \o Concat(Tail(pieces))

StatTexts == {Concat(q) : q \in SeqsUpTo(PiecePool, MaxPieces)}

\* the revisions whose get_gem_info is cited for the cleanup
CleanVariants == {"index", "part001"}

InitClean ==
    /\ variant \in CleanVariants
    /\ ServerIdle
    /\ ParserIdle
    /\ ExtractorIdle
    /\ rawStatText \in StatTexts
    /\ cleanStats = << >>
    /\ cleanedAgain = << >>
    /\ cState = "start"

\* const cleanStats = rawStatText.replace(...).replace(...).replace(...).replace(...)
CleanOnce ==
    /\ cState = "start"
    /\ cleanStats' = CleanText(rawStatText)
    /\ cState' = "once"
    /\ UNCHANGED <<rawStatText, cleanedAgain>>

\* the same pipeline on its own output
CleanAgain ==
    /\ cState = "once"
    /\ cleanedAgain' = CleanText(cleanStats)
    /\ cState' = "twice"
    /\ UNCHANGED <<rawStatText, cleanStats>>

NextClean ==
    \/ (CleanOnce /\ UNCHANGED <<variant, serverVars, parseVars, extractVars>>)
    \/ (CleanAgain /\ UNCHANGED <<variant, serverVars, parseVars, extractVars>>)

SpecClean == InitClean /\ [][NextClean]_vars

----------------------------------------------------------------------------
(* Claims about the cleanup pipeline *)

Delimiters == {"{", "}", "[", "]", "<", ">", "&"}

Constructs == {"colour", "link", "tag", "nbsp"}

\* the text between the opening and the closing delimiter of a match at i
InnerFrom(kind, i) == IF kind = "tag" THEN i + 1 ELSE i + 2

InnerTo(kind, m) == IF kind = "tag" THEN m.next - 2 ELSE m.next - 3

\* s[i..e] is letters and complete constructs; inside a construct stand only
\* letters and complete constructs of the kinds not yet open
RECURSIVE ProperlyNested(_, _, _, _)
ProperlyNested(s, i, e, open) ==
    IF i > e THEN TRUE
    ELSE IF s[i] \notin Delimiters THEN ProperlyNested(s, i + 1, e, open)
    ELSE \E kind \in Constructs \ open :
             LET m == MatchOf(kind, s, i)
             IN  /\ m.ok
                 /\ m.next - 1 <= e
                 /\ \/ kind = "nbsp"
                    \/ ProperlyNested(s, InnerFrom(kind, i), InnerTo(kind, m), open \cup {kind})
                 /\ ProperlyNested(s, m.next, e, open)

NoPathologicalNesting(s) == ProperlyNested(s, 1, Len(s), {})

HasMatch(kind, s) == \E i \in DOMAIN s : MatchOf(kind, s, i).ok

\* C13: for a text free of pathological nesting, cleaning the cleaned text
\* returns it unchanged
C13_CleanIsIdempotent ==
    (cState = "twice" /\ NoPathologicalNesting(rawStatText)) => cleanedAgain = cleanStats

\* a colour macro that holds a tag, cleaned to its letter
C13_Witness ==
    /\ cState = "twice"
    /\ NoPathologicalNesting(rawStatText)
    /\ HasMatch("colour", rawStatText)
    /\ HasMatch("tag", rawStatText)
    /\ cleanStats = <<"T">>

\* a piped link that holds an entity, cleaned to a space
C13_LinkReached ==
    /\ cState = "twice"
    /\ NoPathologicalNesting(rawStatText)
    /\ rawStatText = LinkOpen \o <<"L", "|">> \o NbspEntity \o LinkClose
    /\ cleanStats = <<" ">>

\* the same construct twice in a row, each cleaned
C13_RepeatedConstruct ==
    /\ cState = "twice"
    /\ NoPathologicalNesting(rawStatText)
    /\ rawStatText = <<"<", "i", ">", "T", "<", "i", ">">>

\* a text with pathological nesting that the second cleaning changes again
C13_NestedLinkReached ==
    /\ cState = "twice"
    /\ ~NoPathologicalNesting(rawStatText)
    /\ cleanedAgain # cleanStats

----------------------------------------------------------------------------
(* Claims about the tag-based get_compatible_supports *)

\* the handler is resumed with the answer to `await fetchGemData(gemName)`
TagsStep ==
    /\ pc = "awaitGemData"
    /\ call.tool = "get_compatible_supports"
    /\ pc' # pc

\* what fetchGemData made of the answer the step received
ActiveGem == fetchGemData(variant, response'[1]).value

\* no record, or a record without a non-empty gem_tags value
Tagless(data) ==
    \/ data = Null
    \/ \A i \in DOMAIN data[1] : data[1][i].k = <<"gem_tags">> => data[1][i].v = << >>

GemTagsOf(data) == (CHOOSE e \in {data[1][i] : i \in DOMAIN data[1]} : e.k = <<"gem_tags">>).v

\* s[a..b] lies between two commas (or the ends of s) and holds no comma
IsSegment(s, a, b) ==
    /\ a = 1 \/ s[a - 1] = ","
    /\ b = Len(s) \/ s[b + 1] = ","
    /\ \A t \in a..b : s[t] # ","

TrimmedSegments(s) ==
    LET spans == {ab \in (1..(Len(s) + 1)) \X (0..Len(s)) :
                      ab[1] <= ab[2] + 1 /\ IsSegment(s, ab[1], ab[2])}
    IN  {Trim(SubSeq(s, ab[1], ab[2])) : ab \in spans}

IssuesCorpusQuery == request' # Null /\ request'[1].api = "cargoquery" /\ request' # request

\* C14: without a non-empty gem_tags value the handler returns the 'Could not
\* find tags' message and issues no corpus query; the corpus query is issued
\* only on a non-empty gem_tags value, with trimmed comma-separated segments
\* of that value as its tags
C14_QueryOnlyWithTags ==
    [][(TagsStep \/ IssuesCorpusQuery) =>
           LET gem == ActiveGem
               tagless == Tagless(gem)
               segments == TrimmedSegments(GemTagsOf(gem))
           IN  /\ (TagsStep /\ tagless) =>
                      /\ request' = Null
                      /\ pc' = "idle"
                      /\ lastCall' # Null
                      /\ lastCall'[1].content = <<NoTagsText(call.arg)>>
               /\ IssuesCorpusQuery =>
                      /\ TagsStep
                      /\ ~tagless
                      /\ \A i \in DOMAIN request'[1].arg : request'[1].arg[i] \in segments
                      /\ Len(request'[1].arg) = CountOf(GemTagsOf(gem), ",") + 1]_vars

\* the corpus query is in flight with the tags Attack, AoE of "Attack, AoE"
C14_Witness ==
    /\ pc = "awaitCargo"
    /\ request = Some([api |-> "cargoquery", arg |-> <<<<"Attack">>, <<"AoE">>>>])
    /\ call.gemTags = <<"Attack", ",", " ", "AoE">>

\* the message was returned for a page whose gem_tags is empty
C14_UntaggedReached ==
    /\ lastCall # Null
    /\ lastCall[1].tool = "get_compatible_supports"
    /\ lastCall[1].content = <<NoTagsText(lastCall[1].arg)>>
    /\ lastCall[1].data # Null
    /\ Has(lastCall[1].data[1], <<"gem_tags">>)

\* the message was returned because the gem could not be fetched
C14_UnfetchedReached ==
    /\ lastCall # Null
    /\ lastCall[1].tool = "get_compatible_supports"
    /\ lastCall[1].content = <<NoTagsText(lastCall[1].arg)>>
    /\ lastCall[1].data = Null

----------------------------------------------------------------------------
(* Claims about repeated keys and the parse loop's current key *)

\* no later line in front of the closing marker declares the key of line i
LastDeclaration(i) ==
    \A j \in (i + 1)..(ClosingLine - 1) :
        Declares(j) => KeyPart(variant, pLines[j]) # KeyPart(variant, pLines[i])

EntriesFor(rec, key) == Cardinality({i \in DOMAIN rec : rec[i].k = key})

\* C15: for a key declared on more than one line the record holds once the
\* key, with the trimmed value of the last declaration followed by the
\* continuation lines behind that declaration and nothing of the earlier ones
C15_LastDeclarationWins ==
    Parsed =>
        \A i \in 1..(ClosingLine - 1) :
            (Declares(i) /\ ~DeclaredOnce(i) /\ LastDeclaration(i)) =>
                /\ Get(pReturn[1], KeyPart(variant, pLines[i]))
                       = Trim(AfterEquals(pLines[i])) \o Flatten(pLines, i + 1, NextField(i) - 1)
                /\ EntriesFor(pReturn[1], KeyPart(variant, pLines[i])) = 1

\* C15 witness: a key declared with x, continued, and declared again with y=z
C15_Witness ==
    /\ Parsed
    /\ \E i, j \in 1..(ClosingLine - 1) :
           /\ i + 1 < j
           /\ Declares(i) /\ Declares(j) /\ LastDeclaration(j)
           /\ KeyPart(variant, pLines[i]) = KeyPart(variant, pLines[j])
           /\ Continues(i + 1) /\ Trim(pLines[i + 1]) # << >>
           /\ ValuePart(pLines[i]) # ValuePart(pLines[j])
           /\ Get(pReturn[1], KeyPart(variant, pLines[j])) = ValuePart(pLines[j])

\* the last declaration of a repeated key is itself continued
C15_ContinuedReached ==
    /\ Parsed
    /\ \E i, j \in 1..(ClosingLine - 1) :
           /\ i < j /\ j < ClosingLine - 1
           /\ Declares(i) /\ Declares(j) /\ LastDeclaration(j)
           /\ KeyPart(variant, pLines[i]) = KeyPart(variant, pLines[j])
           /\ Continues(j + 1) /\ Trim(pLines[j + 1]) # << >>

\* the loop has processed a line in this step
LineProcessed == pState = "loop" /\ pIdx' = pIdx + 1

ProcessedLine == pLines[pIdx + 1]

IsPrefix(p, q) == Len(p) <= Len(q) /\ SubSeq(q, 1, Len(p)) = p

\* the records agree on every key but key, whose value has grown
OnlyExtends(old, new, key) ==
    /\ Len(new) = Len(old)
    /\ \A i \in DOMAIN old :
           /\ new[i].k = old[i].k
           /\ IF old[i].k = key THEN IsPrefix(old[i].v, new[i].v) ELSE new[i].v = old[i].v

\* C16: after every processed line the current key is empty or a key of the
\* record; a line without "=" creates no key and at most extends the current
\* key's value, and changes nothing while no key is established; a line with
\* "=" and an empty key part changes neither the record nor the current key
C16_CurrentKeyIsRecorded ==
    /\ [](pState \in {"loop", "done"} => (currentKey = << >> \/ Has(result, currentKey)))
    /\ [][LineProcessed =>
              /\ ~Includes(ProcessedLine, <<"=">>) =>
                     /\ currentKey' = currentKey
                     /\ OnlyExtends(result, result', currentKey)
                     /\ currentKey = << >> => result' = result
              /\ (Includes(ProcessedLine, <<"=">>) /\ KeyPart(variant, ProcessedLine) = << >>) =>
                     /\ result' = result
                     /\ currentKey' = currentKey]_vars

\* C16 witness: a line with "=" and an empty key part was processed while a
\* key was current, and a continuation line behind it went to that key
C16_Witness ==
    /\ pState = "loop"
    /\ pIdx > 2
    /\ Includes(pLines[pIdx - 1], <<"=">>)
    /\ KeyPart(variant, pLines[pIdx - 1]) = << >>
    /\ Continues(pIdx)
    /\ Trim(pLines[pIdx]) # << >>
    /\ currentKey # << >>
    /\ Has(result, currentKey)
    /\ Includes(Get(result, currentKey), <<NL>>)

\* a line without "=" was processed before any key was established
C16_HeaderReached ==
    /\ pState = "loop"
    /\ pIdx = 2
    /\ Continues(2)
    /\ Trim(pLines[2]) # << >>
    /\ currentKey = << >>
    /\ result = << >>

====
